---- MODULE Spec2Model ----
(***************************************************************************)
(* A model of the session manager (AuthProvider) and the profile editor    *)
(* (EditProfileForm) of src/src/components/profile/EditProfileForm.tsx.    *)
(*                                                                         *)
(* The browser runs one thread: a step of the model is what runs between   *)
(* two awaits of a backend call, i.e. from the arrival of one backend      *)
(* response (or of a user or provider event) to the next backend request.  *)
(* A backend call takes effect when its response is delivered.             *)
(* The AuthProvider is modelled while it is mounted (mounted = TRUE at     *)
(* lines 299, 317 and 329).                                                *)
(***************************************************************************)
EXTENDS Integers, Sequences, FiniteSets, TLC

VARIABLES
    db,          \* the profiles table: identity id -> row or NoRow
    bucket,      \* the avatars bucket: the set of stored file names
    now,         \* Date.now() as last read
    auth,        \* the provider's current session (NoSession when signed out)
    session,     \* AuthProvider state (line 283)
    user,        \* AuthProvider state (line 284)
    profile,     \* AuthProvider state (line 285)
    isLoading,   \* AuthProvider state (line 286)
    signedOut,   \* history: a SIGNED_OUT event has been handled and no
                 \* session has been stored since
    verified,    \* history: the identities that have been shown the
                 \* "Account Verified" notification
    tasks,       \* getInitialSession (task 0) and the running auth callbacks
    so,          \* a running signOut call
    upd,         \* a running updateProfile call made by another component
    open,        \* the editing surface is open (isOpen / onOpenChange)
    formData,    \* EditProfileForm state (line 23)
    avatarFile,  \* EditProfileForm state (line 28)
    formLoading, \* EditProfileForm state (line 22)
    sub,         \* a running handleSubmit
    rsub,        \* a handleSubmit running in another browser
    last         \* what the last step did: its name, toasts, backend calls

vars == <<db, bucket, now, auth, session, user, profile, isLoading, signedOut,
          verified, tasks, so, upd, open, formData, avatarFile, formLoading, sub, rsub, last>>

backendVars == <<db, bucket>>
authVars == <<session, user, profile, isLoading, signedOut, verified>>
formVars == <<open, formData, avatarFile, formLoading>>

-----------------------------------------------------------------------------
(* Bounds of the model *)

MaxHandlers == 1    \* auth callbacks that may be running at once
MaxTok == 1         \* token refreshes of one session
MaxClock == 1       \* values of Date.now() beyond the first

-----------------------------------------------------------------------------
(* Strings are sequences of characters *)

Lower == {"a", "b", "d", "e", "g", "i", "l", "m", "n", "o", "p", "r", "s",
          "t", "u", "v", "x", "y", "z"}
Upper == {"G", "N", "P", "Z"}
Digit == {"0", "1", "2", "9"}
WordChar == Lower \cup Upper \cup Digit \cup {"_"}   \* [a-zA-Z0-9_]
WhiteSpace == {" "}

S_bob == <<"b", "o", "b">>
S_ann == <<"a", "n", "n">>
S_ab == <<"a", "b">>

Null == <<>>          \* null / undefined of a string-valued field
NoUser == "none"
NoSession == [uid |-> NoUser, tok |-> 0]
NewSession(u) == [uid |-> u, tok |-> 0]
NoRow == [id |-> NoUser]
NoFile == [name |-> <<>>]

Users == {"u1", "u2", "u3", "u4"}

\* The provider's accounts: email, user_metadata.display_name,
\* email_confirmed_at.  u1 signed up without an email address; the address
\* of u4 is a.b@x.
Email(u) ==
    CASE u = "u1" -> Null
      [] u = "u2" -> S_bob \o <<"@", "x">>
      [] u = "u3" -> S_bob \o <<"@", "y">>
      [] OTHER    -> <<"a", ".", "b", "@", "x">>

MetaDisplayName(u) == IF u = "u2" THEN <<"Z">> ELSE Null

EmailConfirmed(u) == u # "u2"

-----------------------------------------------------------------------------
(* String functions of the JavaScript runtime, as the code uses them *)

RECURSIVE TrimStart(_)
TrimStart(s) ==
    IF s # <<>> /\ Head(s) \in WhiteSpace THEN TrimStart(Tail(s)) ELSE s

RECURSIVE TrimEnd(_)
TrimEnd(s) ==
    IF s # <<>> /\ s[Len(s)] \in WhiteSpace
    THEN TrimEnd(SubSeq(s, 1, Len(s) - 1))
    ELSE s

Trim(s) == TrimEnd(TrimStart(s))

\* /^[a-zA-Z0-9_]+$/.test(s)
WordTest(s) == s # <<>> /\ \A i \in 1..Len(s) : s[i] \in WordChar

\* s.split(sep)[0]
RECURSIVE SplitFirst(_, _)
SplitFirst(s, sep) ==
    IF s = <<>> \/ Head(s) = sep
    THEN <<>>
    ELSE <<Head(s)>> \o SplitFirst(Tail(s), sep)

\* String(n) of a number n >= 0
DigitChar(d) ==
    CASE d = 0 -> "0" [] d = 1 -> "1" [] d = 2 -> "2" [] d = 3 -> "3"
      [] d = 4 -> "4" [] d = 5 -> "5" [] d = 6 -> "6" [] d = 7 -> "7"
      [] d = 8 -> "8" [] OTHER -> "9"

RECURSIVE Digits(_)
Digits(n) ==
    IF n < 10 THEN <<DigitChar(n)>> ELSE Digits(n \div 10) \o <<DigitChar(n % 10)>>

Undefined == <<"undefined">>
Truthy(v) == v # Null /\ v # Undefined

-----------------------------------------------------------------------------
(* Profile rows and the backend's answers *)

NoProfile == NoRow

\* a default username without the `|| user_${Date.now()}` fallback
DefaultUsername_NoFallback(gu, t) ==
    IF Email(gu) = Null THEN Null ELSE SplitFirst(Email(gu), "@")

\* line 401: the default username, from the provider's user gu and the time t
DefaultUsername(gu, t) ==
    LET local == IF Email(gu) = Null THEN Null ELSE SplitFirst(Email(gu), "@")
    IN  IF local # <<>> THEN local ELSE <<"u", "s", "e", "r", "_">> \o Digits(t)

\* lines 398-407: the row fetchProfile inserts for userId
NewProfileRow(userId, gu, t) ==
    [id |-> userId,
     username |-> DefaultUsername(gu, t),
     display_name |-> MetaDisplayName(gu),
     avatar_url |-> Null,
     bio |-> Null,
     coins |-> 0]

\* { ...prev, ...updates }
Merge(prev, updates) ==
    [f \in DOMAIN prev \cup DOMAIN updates |->
        IF f \in DOMAIN updates THEN updates[f] ELSE prev[f]]

\* the request body of an update: JSON drops the undefined fields (only
\* avatar_url can be undefined, line 132)
Sent(updates) ==
    [f \in {g \in DOMAIN updates : ~(g = "avatar_url" /\ updates[g] = Undefined)}
        |-> updates[f]]

\* an update that the table refuses, silently, when another row holds the
\* new username
UpdateRows_Unique(d, id, updates) ==
    IF \/ d[id] = NoRow
       \/ /\ "username" \in DOMAIN updates
          /\ \E j \in Users \ {id} : d[j] # NoRow /\ d[j].username = updates.username
    THEN d
    ELSE [d EXCEPT ![id] = Merge(@, Sent(updates))]

\* .from('profiles').update(updates).eq('id', id)
UpdateRows(d, id, updates) ==
    IF d[id] = NoRow THEN d ELSE [d EXCEPT ![id] = Merge(@, Sent(updates))]

\* .single(): the row when exactly one row matches, else the error PGRST116
Single(rows) ==
    IF Cardinality(rows) = 1
    THEN [data |-> CHOOSE r \in rows : TRUE, error |-> "none"]
    ELSE [data |-> NoRow, error |-> "PGRST116"]

Failed == [data |-> NoRow, error |-> "OTHER"]

\* lines 384-388
SelectById(d, id) == Single({d[i] : i \in {j \in Users : j = id /\ d[j] # NoRow}})

\* lines 117-122
SelectOtherByUsername(d, id, name) ==
    Single({d[i] : i \in {j \in Users : d[j] # NoRow /\ j # id
                                          /\ d[j].username = name}})

\* the avatars bucket
FileName(uid, t, ext) == <<uid, "-">> \o Digits(t) \o <<".">> \o ext
UrlBase == <<"https:", "", "host", "storage", "avatars">>
PublicUrl(fileName) == UrlBase \o <<fileName>>
\* url.split('/').pop()
LastSegment(url) == url[Len(url)]

-----------------------------------------------------------------------------
(* The AuthProvider's state and its asynchronous tasks *)

\* the identities that sign in in this browser
AuthUsers == {"u1", "u2"}

AuthState ==
    [session |-> session, user |-> user, profile |-> profile,
     isLoading |-> isLoading, signedOut |-> signedOut, verified |-> verified]

SetAuthState(a) ==
    /\ session' = a.session
    /\ user' = a.user
    /\ profile' = a.profile
    /\ isLoading' = a.isLoading
    /\ signedOut' = a.signedOut
    /\ verified' = a.verified

\* what a step did: its name, the result or error message the operation ended
\* with ("none" while it runs), the toasts it showed and the backend calls it
\* issued, in order; the calls of onProfileUpdate, onOpenChange and navigate
\* are recorded as the toasts are
Did(op, result, toasts, calls) ==
    last' = [op |-> op, result |-> result, toasts |-> toasts, calls |-> calls]

SubIdle == [pc |-> "idle"]

TaskIds == 0..MaxHandlers
IdleTask == [pc |-> "idle", uid |-> NoUser, ev |-> "none", phase |-> 0, row |-> NoRow]
SelectTask(uid, ev, phase) ==
    [pc |-> "select", uid |-> uid, ev |-> ev, phase |-> phase, row |-> NoRow]

\* lines 332-338 (and 318-321, 549-552): all auth state cleared
Cleared(a) ==
    [a EXCEPT !.session = NoSession, !.user = NoUser, !.profile = NoProfile,
              !.isLoading = FALSE]

\* lines 300-301 and 341-342
WithSession(a, s) ==
    [a EXCEPT !.session = s, !.user = s.uid,
              !.signedOut = IF s.uid # NoUser THEN FALSE ELSE @]

\* a no-session branch without setIsLoading(false)
NoSessionBranch_KeepsLoading(a) == [a EXCEPT !.profile = NoProfile]

\* lines 306-307 and 356-357
NoSessionBranch(a) == [a EXCEPT !.profile = NoProfile, !.isLoading = FALSE]

\* line 381
FetchStarted(a) == [a EXCEPT !.isLoading = TRUE]

\* lines 425 and 415, then 435
FetchLoaded(a, row) == [a EXCEPT !.profile = row, !.isLoading = FALSE]

\* lines 426-436
FetchFailed(a) == [a EXCEPT !.profile = NoProfile, !.isLoading = FALSE]

Init ==
    /\ db = [u \in Users |-> NoRow]
    /\ bucket = {}
    /\ now = 0
    /\ auth \in {NoSession} \cup {NewSession(u) : u \in AuthUsers}
    /\ session = NoSession
    /\ user = NoUser
    /\ profile = NoProfile
    /\ isLoading = TRUE
    /\ signedOut = FALSE
    /\ verified = {}
    /\ tasks = [i \in TaskIds |->
                    IF i = 0 THEN [IdleTask EXCEPT !.pc = "getSession", !.ev = "INIT"]
                    ELSE IdleTask]
    /\ so = "idle"
    /\ upd = [pc |-> "idle"]
    /\ open = FALSE
    /\ formData = [username |-> <<>>, display_name |-> <<>>, bio |-> <<>>]
    /\ avatarFile = NoFile
    /\ formLoading = FALSE
    /\ sub = SubIdle
    /\ rsub = [pc |-> "idle"]
    /\ last = [op |-> "mount", result |-> "none", toasts |-> <<>>, calls |-> <<"getSession">>]

\* lines 293-324: getInitialSession after supabase.auth.getSession() answers
GetSessionResolve(fail) ==
    /\ tasks[0].pc = "getSession"
    /\ IF fail
       THEN /\ SetAuthState(Cleared(AuthState))
            /\ tasks' = [tasks EXCEPT ![0] = IdleTask]
            /\ Did("getInitialSession", "none", <<"Auth Error">>, <<>>)
       ELSE IF auth.uid # NoUser
       THEN /\ SetAuthState(FetchStarted(WithSession(AuthState, auth)))
            /\ tasks' = [tasks EXCEPT ![0] = SelectTask(auth.uid, "INIT", 1)]
            /\ Did("getInitialSession", "none", <<>>, <<"select">>)
       ELSE /\ SetAuthState(NoSessionBranch(WithSession(AuthState, auth)))
            /\ tasks' = [tasks EXCEPT ![0] = IdleTask]
            /\ Did("getInitialSession", "none", <<>>, <<>>)
    /\ UNCHANGED <<backendVars, now, auth, so, upd, formVars, sub, rsub>>

\* a SIGNED_OUT branch that forgets setProfile(null)
OnSignedOut_KeepsProfile(a) ==
    [a EXCEPT !.session = NoSession, !.user = NoUser, !.isLoading = FALSE,
              !.signedOut = TRUE]

\* lines 332-338: the callback's SIGNED_OUT branch
OnSignedOut(a) == [Cleared(a) EXCEPT !.signedOut = TRUE]

\* A free callback slot: the lowest idle one
FreeSlot(i) ==
    /\ i \in 1..MaxHandlers
    /\ tasks[i].pc = "idle"
    /\ \A j \in 1..(i - 1) : tasks[j].pc # "idle"

\* lines 328-371: the callback for an event other than SIGNED_OUT, up to its
\* first await
OnAuthEvent(ev, s) ==
    IF s.uid # NoUser
    THEN \E i \in 1..MaxHandlers :
            /\ FreeSlot(i)
            /\ SetAuthState(FetchStarted(WithSession(AuthState, s)))
            /\ tasks' = [tasks EXCEPT ![i] = SelectTask(s.uid, ev, 1)]
            /\ Did(ev, "none", <<>>, <<"select">>)
    ELSE /\ SetAuthState(NoSessionBranch(WithSession(AuthState, s)))
         /\ UNCHANGED tasks
         /\ Did(ev, "none", <<>>, <<>>)

\* The provider signs u in (or announces u's session again) and emits SIGNED_IN
SignedIn(u) ==
    /\ auth = NoSession \/ auth.uid = u
    /\ auth' = IF auth = NoSession THEN NewSession(u) ELSE auth
    /\ OnAuthEvent("SIGNED_IN", auth')
    /\ UNCHANGED <<backendVars, now, so, upd, formVars, sub, rsub>>

\* The session ends (expiry, another tab) and the provider emits SIGNED_OUT
SignedOut ==
    /\ auth # NoSession
    /\ auth' = NoSession
    /\ SetAuthState(OnSignedOut(AuthState))
    /\ Did("SIGNED_OUT", "none", <<>>, <<>>)
    /\ UNCHANGED <<backendVars, now, tasks, so, upd, formVars, sub, rsub>>

TokenRefreshed ==
    /\ auth # NoSession
    /\ auth.tok < MaxTok
    /\ auth' = [auth EXCEPT !.tok = @ + 1]
    /\ OnAuthEvent("TOKEN_REFRESHED", auth')
    /\ UNCHANGED <<backendVars, now, so, upd, formVars, sub, rsub>>

UserUpdated ==
    /\ auth # NoSession
    /\ UNCHANGED auth
    /\ OnAuthEvent("USER_UPDATED", auth)
    /\ UNCHANGED <<backendVars, now, so, upd, formVars, sub, rsub>>

\* What follows `await fetchProfile(...)` in the caller of task i, once
\* fetchProfile has ended with result (loaded, created or error), left the
\* state a and shown toasts: lines 347-354 and 360-369 in the callback,
\* nothing in getInitialSession
AfterFetch(i, a, result, toasts) ==
    LET t == tasks[i]
        notify == t.phase = 1 /\ t.ev = "SIGNED_IN" /\ EmailConfirmed(t.uid)
        shown == IF notify THEN <<"Account Verified">> ELSE <<>>
        b == IF notify THEN [a EXCEPT !.verified = @ \cup {t.uid}] ELSE a
    IN  IF t.phase = 1 /\ t.ev = "USER_UPDATED"
        THEN /\ SetAuthState(FetchStarted(b))
             /\ tasks' = [tasks EXCEPT ![i] = SelectTask(t.uid, t.ev, 2)]
             /\ Did("fetchProfile", result, toasts \o shown, <<"select">>)
        ELSE /\ SetAuthState(b)
             /\ tasks' = [tasks EXCEPT ![i] = IdleTask]
             /\ Did("fetchProfile", result, toasts \o shown, <<>>)

\* lines 384-390 and 422-436: the select of fetchProfile answers
FetchSelectResolve(i, fail) ==
    /\ tasks[i].pc = "select"
    /\ LET r == IF fail THEN Failed ELSE SelectById(db, tasks[i].uid)
       IN  CASE r.error = "none" ->
                    AfterFetch(i, FetchLoaded(AuthState, r.data), "loaded", <<>>)
             [] r.error = "PGRST116" ->
                    /\ tasks' = [tasks EXCEPT ![i].pc = "getUser"]
                    /\ Did("fetchProfile", "none", <<>>, <<"getUser">>)
                    /\ UNCHANGED authVars
             [] OTHER ->
                    AfterFetch(i, FetchFailed(AuthState), "error", <<"Error">>)
    /\ UNCHANGED <<backendVars, now, auth, so, upd, formVars, sub, rsub>>

\* lines 393-409: supabase.auth.getUser() answers; the row to insert is built
FetchGetUserResolve(i, fail) ==
    /\ tasks[i].pc = "getUser"
    /\ LET gu == IF fail THEN NoUser ELSE auth.uid
       IN  IF gu = NoUser
           THEN /\ AfterFetch(i, FetchFailed(AuthState), "error", <<"Error">>)
                /\ UNCHANGED now
           ELSE /\ now' \in IF DefaultUsername(gu, 0) = DefaultUsername(gu, 1)
                            THEN {now}
                            ELSE {t \in {now, now + 1} : t <= MaxClock}
                /\ tasks' = [tasks EXCEPT ![i].pc = "insert",
                                          ![i].row = NewProfileRow(tasks[i].uid, gu, now')]
                /\ Did("fetchProfile", "none", <<>>, <<"insert">>)
                /\ UNCHANGED authVars
    /\ UNCHANGED <<backendVars, auth, so, upd, formVars, sub, rsub>>

\* lines 396-420 and 426-436: the insert answers; the table's key is id
FetchInsertResolve(i, fail) ==
    /\ tasks[i].pc = "insert"
    /\ IF ~fail /\ db[tasks[i].uid] = NoRow
       THEN /\ db' = [db EXCEPT ![tasks[i].uid] = tasks[i].row]
            /\ AfterFetch(i, FetchLoaded(AuthState, tasks[i].row), "created",
                          <<"Profile Created">>)
       ELSE /\ UNCHANGED db
            /\ AfterFetch(i, FetchFailed(AuthState), "error", <<"Error">>)
    /\ UNCHANGED <<bucket, now, auth, so, upd, formVars, sub, rsub>>

\* lines 543-547: signOut calls supabase.auth.signOut()
SignOutCall ==
    /\ so = "idle"
    /\ so' = "wait"
    /\ Did("signOut", "none", <<>>, <<"signOut">>)
    /\ UNCHANGED <<backendVars, now, auth, authVars, tasks, upd, formVars, sub, rsub>>

\* lines 548-561, after a sign-out without error
SignOutSucceeded(a) == Cleared(a)

\* a catch block that clears the state as the success path does
SignOutErrored_Clears(a) == Cleared(a)

\* lines 562-569, after a sign-out that reports an error
SignOutErrored(a) == a

\* lines 545-569: the provider answers.  Without an error it has ended the
\* session and the callback has handled SIGNED_OUT before signOut goes on.
SignOutResolve(fail) ==
    /\ so = "wait"
    /\ so' = "idle"
    /\ IF fail
       THEN /\ UNCHANGED auth
            /\ SetAuthState(SignOutErrored(AuthState))
            /\ Did("signOut", "error", <<"Error">>, <<>>)
       ELSE /\ auth' = NoSession
            /\ SetAuthState(SignOutSucceeded(OnSignedOut(AuthState)))
            /\ Did("signOut", "ok", <<"Logged Out", "navigate">>, <<>>)
    /\ UNCHANGED <<backendVars, now, tasks, upd, formVars, sub, rsub>>

\* setProfile(prev => prev ? { ...updates } : null) with the fields that are
\* not in updates lost
MergedProfile_Replaced(prev, updates) ==
    IF prev # NoProfile
    THEN [f \in DOMAIN prev |->
            IF f \in DOMAIN updates THEN updates[f]
            ELSE IF f \in {"id", "coins"} THEN prev[f] ELSE Undefined]
    ELSE NoProfile

\* line 582: setProfile(prev => prev ? { ...prev, ...updates } : null)
MergedProfile(prev, updates) ==
    IF prev # NoProfile THEN Merge(prev, updates) ELSE NoProfile

\* an optimistic merge, made whether the update failed or not
UpdateProfileDone_Optimistic(a, updates, fail) ==
    [a EXCEPT !.profile = MergedProfile(@, updates)]

\* lines 581-593: updateProfile after the update has answered
UpdateProfileDone(a, updates, fail) ==
    IF ~fail THEN [a EXCEPT !.profile = MergedProfile(@, updates)] ELSE a

\* the updates other components pass to updateProfile
DirectUpdates == {[display_name |-> <<"X">>]}

\* lines 572-579: updateProfile called with the user of the caller's render
UpdateProfileCall(updates) ==
    /\ upd.pc = "idle"
    /\ IF user = NoUser
       THEN /\ UNCHANGED upd
            /\ Did("updateProfile", "User not authenticated", <<>>, <<>>)
       ELSE /\ upd' = [pc |-> "wait", uid |-> user, updates |-> updates]
            /\ Did("updateProfile", "none", <<>>, <<"update">>)
    /\ UNCHANGED <<backendVars, now, auth, authVars, tasks, so, formVars, sub, rsub>>

\* lines 576-595: the update answers
UpdateProfileResolve(fail) ==
    /\ upd.pc = "wait"
    /\ upd' = [pc |-> "idle"]
    /\ db' = IF fail THEN db ELSE UpdateRows(db, upd.uid, upd.updates)
    /\ SetAuthState(UpdateProfileDone(AuthState, upd.updates, fail))
    /\ IF fail
       THEN Did("updateProfile", "error", <<"Update Failed">>, <<>>)
       ELSE Did("updateProfile", "ok", <<"Profile Updated">>, <<>>)
    /\ UNCHANGED <<bucket, now, auth, tasks, so, formVars, sub, rsub>>

-----------------------------------------------------------------------------
(* The profile editor *)

S_imagePng == <<"i", "m", "a", "g", "e", "/", "p", "n", "g">>
S_textPlain == <<"t", "e", "x", "t", "/", "p", "l", "a", "i", "n">>
S_imagePrefix == <<"i", "m", "a", "g", "e", "/">>
MiB == 1024 * 1024

\* the files the user may attach
Files ==
    {[name |-> <<"a", ".", "P", "N", "G">>, type |-> S_imagePng, size |-> MiB],
     [name |-> <<"a", ".", "t", "x", "t">>, type |-> S_textPlain, size |-> 1024]}

\* the usernames the user may type
DraftNames == {S_bob, S_ann, S_ab}

\* s.startsWith(p)
StartsWith(s, p) == Len(s) >= Len(p) /\ SubSeq(s, 1, Len(p)) = p

\* s.split(sep).pop()
RECURSIVE SplitLast(_, _)
SplitLast(s, sep) ==
    IF \A i \in 1..Len(s) : s[i] # sep
    THEN s
    ELSE SplitLast(Tail(s), sep)

LowerChar(c) ==
    CASE c = "G" -> "g" [] c = "N" -> "n" [] c = "P" -> "p" [] c = "Z" -> "z"
      [] OTHER -> c

\* s.toLowerCase()
ToLowerCase(s) == [i \in 1..Len(s) |-> LowerChar(s[i])]

ImageExts == {<<"j", "p", "g">>, <<"j", "p", "e", "g">>, <<"p", "n", "g">>,
              <<"g", "i", "f">>}

\* line 54
FileExt(file) == ToLowerCase(SplitLast(file.name, "."))

\* a validation that rejects a file of exactly 2 MiB
ValidateFile_Below2MiB(file) ==
    IF ~StartsWith(file.type, S_imagePrefix)
    THEN "Please upload an image file"
    ELSE IF file.size >= 2 * 1024 * 1024
    THEN "Image size should be less than 2MB"
    ELSE IF FileExt(file) = <<>> \/ FileExt(file) \notin ImageExts
    THEN "Please upload a valid image file (JPG, PNG, or GIF)"
    ELSE "none"

\* lines 46-57: the error uploadAvatar throws for a file, or "none"
ValidateFile(file) ==
    IF ~StartsWith(file.type, S_imagePrefix)
    THEN "Please upload an image file"
    ELSE IF file.size > 2 * 1024 * 1024
    THEN "Image size should be less than 2MB"
    ELSE IF FileExt(file) = <<>> \/ FileExt(file) \notin ImageExts
    THEN "Please upload a valid image file (JPG, PNG, or GIF)"
    ELSE "none"

\* a validation that rejects a username of 30 characters
ValidateUsername_Max29(s) ==
    IF Trim(s) = <<>>
    THEN "Username is required"
    ELSE IF Len(s) < 3
    THEN "Username must be at least 3 characters long"
    ELSE IF Len(s) >= 30
    THEN "Username must be less than 30 characters"
    ELSE IF ~WordTest(s)
    THEN "Username can only contain letters, numbers, and underscores"
    ELSE "none"

\* lines 101-113: the error handleSubmit throws for a username, or "none"
ValidateUsername(s) ==
    IF Trim(s) = <<>>
    THEN "Username is required"
    ELSE IF Len(s) < 3
    THEN "Username must be at least 3 characters long"
    ELSE IF Len(s) > 30
    THEN "Username must be less than 30 characters"
    ELSE IF ~WordTest(s)
    THEN "Username can only contain letters, numbers, and underscores"
    ELSE "none"

\* v || ''
OrEmpty(v) == IF Truthy(v) THEN v ELSE <<>>

\* lines 23-27: the draft of a form opened on profile p
InitialDraft(p) ==
    IF p = NoProfile
    THEN [username |-> <<>>, display_name |-> <<>>, bio |-> <<>>]
    ELSE [username |-> OrEmpty(p.username),
          display_name |-> OrEmpty(p.display_name),
          bio |-> OrEmpty(p.bio)]

\* profile?.username and profile?.avatar_url
UsernameOf(p) == IF p = NoProfile THEN Undefined ELSE p.username
AvatarUrlOf(p) == IF p = NoProfile THEN Undefined ELSE p.avatar_url

\* lines 60-62: the file of the previous avatar, <<>> when there is none
OldFilePath(p) ==
    IF Truthy(AvatarUrlOf(p)) THEN LastSegment(AvatarUrlOf(p)) ELSE <<>>

\* a check that queries whether the username has changed or not
UsernameChanged_Always(form, p) == TRUE

\* line 116: the uniqueness query is needed
UsernameChanged(form, p) == form.username # UsernameOf(p)

\* lines 143-146: the updates handleSubmit passes to updateProfile
SubmitUpdates(form, avatar_url) ==
    [username |-> form.username, display_name |-> form.display_name,
     bio |-> form.bio, avatar_url |-> avatar_url]

\* a running handleSubmit: where it waits, and the user, profile, formData
\* and avatarFile of the render it was started in
SubRunning(pc, u, p, form, file) ==
    [pc |-> pc, user |-> u, profile |-> p, form |-> form, file |-> file,
     fileName |-> <<>>, avatar_url |-> AvatarUrlOf(p)]

\* the dialog is opened: EditProfileForm is mounted (lines 22-29)
OpenForm ==
    /\ ~open
    /\ sub.pc = "idle"
    /\ open' = TRUE
    /\ formData' = InitialDraft(profile)
    /\ avatarFile' = NoFile
    /\ formLoading' = FALSE
    /\ Did("other", "none", <<>>, <<>>)
    /\ UNCHANGED <<backendVars, now, auth, authVars, tasks, so, upd, sub, rsub>>

\* line 233: Cancel, between submissions as well
Cancel ==
    /\ open
    /\ sub.pc = "idle"
    /\ open' = FALSE
    /\ Did("cancel", "none", <<"onOpenChange(false)">>, <<>>)
    /\ UNCHANGED <<backendVars, now, auth, authVars, tasks, so, upd, formData,
                   avatarFile, formLoading, sub, rsub>>

\* lines 31-34.  handleSubmit reads the draft of the render it was started
\* in, so an edit made while it runs commutes with its steps: the model has
\* the user edit between submissions.
HandleInputChange(name, value) ==
    /\ open
    /\ sub.pc = "idle"
    /\ formData[name] # value
    /\ formData' = [formData EXCEPT ![name] = value]
    /\ Did("other", "none", <<>>, <<>>)
    /\ UNCHANGED <<backendVars, now, auth, authVars, tasks, so, upd, open,
                   avatarFile, formLoading, sub, rsub>>

\* lines 36-42, between submissions as well
HandleAvatarChange(file) ==
    /\ open
    /\ sub.pc = "idle"
    /\ avatarFile # file
    /\ avatarFile' = file
    /\ Did("other", "none", <<>>, <<>>)
    /\ UNCHANGED <<backendVars, now, auth, authVars, tasks, so, upd, open,
                   formData, formLoading, sub, rsub>>

\* an error path without the finally block of lines 163-165
SubmitFailed_KeepsLoading(toasts, message) ==
    /\ sub' = SubIdle
    /\ formLoading' = TRUE
    /\ Did("handleSubmit", message, toasts \o <<"Error">>, <<>>)
    /\ UNCHANGED <<now, open>>

\* lines 157-165: handleSubmit ends with an error
SubmitFailed(toasts, message) ==
    /\ sub' = SubIdle
    /\ formLoading' = FALSE
    /\ Did("handleSubmit", message, toasts \o <<"Error">>, <<>>)
    /\ UNCHANGED <<now, open>>

\* handleSubmit goes on to wait for a backend call
SubmitWaits(c, call) ==
    /\ sub' = [c EXCEPT !.pc = call]
    /\ formLoading' = TRUE
    /\ Did("handleSubmit", "none", <<>>, <<call>>)
    /\ UNCHANGED open

\* lines 143-146 and 572-579: handleSubmit calls updateProfile
SubmitCallsUpdate(c) ==
    IF c.user = NoUser
    THEN SubmitFailed(<<>>, "User not authenticated")
    ELSE SubmitWaits(c, "update") /\ UNCHANGED now

\* lines 69-73: uploadAvatar names the file and uploads it
SubmitUploads(c) ==
    /\ now' \in {t \in {now, now + 1} : t <= MaxClock}
    /\ SubmitWaits([c EXCEPT !.fileName = FileName(c.user, now', FileExt(c.file))],
                   "upload")

\* a submission that saves the other fields when the file is not valid
SubmitAvatarStage_SavesAnyway(c) ==
    IF c.file = NoFile \/ ValidateFile(c.file) # "none"
    THEN SubmitCallsUpdate(c)
    ELSE IF OldFilePath(c.profile) # <<>>
    THEN SubmitWaits(c, "remove") /\ UNCHANGED now
    ELSE SubmitUploads(c)

\* lines 132-146, up to the first await
SubmitAvatarStage(c) ==
    IF c.file = NoFile
    THEN SubmitCallsUpdate(c)
    ELSE IF ValidateFile(c.file) # "none"
    THEN SubmitFailed(<<"Avatar Upload Failed">>, "Failed to upload avatar")
    ELSE IF OldFilePath(c.profile) # <<>>
    THEN SubmitWaits(c, "remove") /\ UNCHANGED now
    ELSE SubmitUploads(c)

\* lines 92-122: the form is submitted (the button is disabled while loading)
SubmitStart ==
    /\ open
    /\ ~formLoading
    /\ sub.pc = "idle"
    /\ LET c == SubRunning("start", user, profile, formData, avatarFile)
       IN  IF c.user = NoUser
           THEN SubmitFailed(<<>>, "You must be logged in to update your profile")
           ELSE IF ValidateUsername(c.form.username) # "none"
           THEN SubmitFailed(<<>>, ValidateUsername(c.form.username))
           ELSE IF UsernameChanged(c.form, c.profile)
           THEN SubmitWaits(c, "uniq") /\ UNCHANGED now
           ELSE SubmitAvatarStage(c)
    /\ UNCHANGED <<backendVars, auth, authVars, tasks, so, upd, formData,
                   avatarFile, rsub>>

\* lines 117-130: the uniqueness query answers
SubmitUniqResolve(fail) ==
    /\ sub.pc = "uniq"
    /\ LET r == IF fail THEN Failed
                ELSE SelectOtherByUsername(db, sub.user, sub.form.username)
       IN  IF r.data # NoRow
           THEN SubmitFailed(<<>>, "Username is already taken")
           ELSE IF r.error \notin {"none", "PGRST116"}
           THEN SubmitFailed(<<>>, r.error)
           ELSE SubmitAvatarStage(sub)
    /\ UNCHANGED <<backendVars, auth, authVars, tasks, so, upd, formData,
                   avatarFile, rsub>>

\* lines 63-73: the removal of the old file answers; its outcome is ignored
SubmitRemoveResolve(fail) ==
    /\ sub.pc = "remove"
    /\ bucket' = IF fail THEN bucket ELSE bucket \ {OldFilePath(sub.profile)}
    /\ SubmitUploads(sub)
    /\ UNCHANGED <<db, auth, authVars, tasks, so, upd, formData, avatarFile, rsub>>

\* lines 71-90 and 135-146: the upload answers; a name in use is an error
SubmitUploadResolve(fail) ==
    /\ sub.pc = "upload"
    /\ IF ~fail /\ sub.fileName \notin bucket
       THEN /\ bucket' = bucket \cup {sub.fileName}
            /\ SubmitCallsUpdate([sub EXCEPT !.avatar_url = PublicUrl(sub.fileName)])
       ELSE /\ UNCHANGED bucket
            /\ SubmitFailed(<<"Avatar Upload Failed">>, "Failed to upload avatar")
    /\ UNCHANGED <<db, auth, authVars, tasks, so, upd, formData, avatarFile, rsub>>

\* lines 576-595 and 148-165: the update answers
SubmitUpdateResolve(fail) ==
    /\ sub.pc = "update"
    /\ LET updates == SubmitUpdates(sub.form, sub.avatar_url)
       IN  /\ db' = IF fail THEN db ELSE UpdateRows(db, sub.user, updates)
           /\ SetAuthState(UpdateProfileDone(AuthState, updates, fail))
    /\ IF fail
       THEN SubmitFailed(<<"Update Failed">>, "error")
       ELSE /\ sub' = SubIdle
            /\ formLoading' = FALSE
            /\ open' = FALSE
            /\ Did("handleSubmit", "ok",
                   <<"Profile Updated", "Profile Updated", "onProfileUpdate",
                     "onOpenChange(false)">>, <<>>)
            /\ UNCHANGED now
    /\ UNCHANGED <<bucket, auth, tasks, so, upd, formData, avatarFile, rsub>>

-----------------------------------------------------------------------------
(* Other browsers: the same code run by other identities *)

\* the usernames typed in the other browsers
RemoteNames == {S_ann}

\* lines 396-409: fetchProfile in u's browser creates u's row
RemoteCreate(u) ==
    /\ db[u] = NoRow
    /\ db' = [db EXCEPT ![u] = NewProfileRow(u, u, now)]
    /\ Did("other", "none", <<>>, <<>>)
    /\ UNCHANGED <<bucket, now, auth, authVars, tasks, so, upd, formVars, sub, rsub>>

\* lines 116-130: handleSubmit in u's browser passes the uniqueness query
RemoteSubmitCheck(u, name) ==
    /\ rsub.pc = "idle"
    /\ db[u] # NoRow
    /\ ValidateUsername(name) = "none"
    /\ name # db[u].username
    /\ LET r == SelectOtherByUsername(db, u, name)
       IN  r.data = NoRow /\ r.error \in {"none", "PGRST116"}
    /\ rsub' = [pc |-> "update", user |-> u,
                updates |-> SubmitUpdates(
                    [InitialDraft(db[u]) EXCEPT !.username = name],
                    db[u].avatar_url)]
    /\ Did("other", "none", <<>>, <<>>)
    /\ UNCHANGED <<backendVars, now, auth, authVars, tasks, so, upd, formVars, sub>>

\* lines 143-146 and 576-579: its update answers without error
RemoteSubmitCommit ==
    /\ rsub.pc = "update"
    /\ db' = UpdateRows(db, rsub.user, rsub.updates)
    /\ rsub' = [pc |-> "idle"]
    /\ Did("other", "none", <<>>, <<>>)
    /\ UNCHANGED <<bucket, now, auth, authVars, tasks, so, upd, formVars, sub>>

-----------------------------------------------------------------------------
(* Specifications *)

\* The session manager: auth events, profile loading and sign-out
Next ==
    \/ \E fail \in BOOLEAN : GetSessionResolve(fail)
    \/ \E u \in AuthUsers : SignedIn(u)
    \/ SignedOut
    \/ TokenRefreshed
    \/ UserUpdated
    \/ \E i \in TaskIds, fail \in BOOLEAN : FetchSelectResolve(i, fail)
    \/ \E i \in TaskIds, fail \in BOOLEAN : FetchGetUserResolve(i, fail)
    \/ \E i \in TaskIds, fail \in BOOLEAN : FetchInsertResolve(i, fail)
    \/ SignOutCall
    \/ \E fail \in BOOLEAN : SignOutResolve(fail)

Spec == Init /\ [][Next]_vars

\* The profile editor used by u1, who is signed in with the profile that
\* fetchProfile created, while u2 (whose profile exists) and u3 use other
\* browsers
EditUsers == {"u1"}

InitEdit ==
    /\ db = [u \in Users |->
                IF u \in {"u3", "u4"} THEN NoRow ELSE NewProfileRow(u, u, 0)]
    /\ bucket = {}
    /\ now = 0
    /\ auth = NewSession("u1")
    /\ session = auth
    /\ user = "u1"
    /\ profile = db["u1"]
    /\ isLoading = FALSE
    /\ signedOut = FALSE
    /\ verified = {}
    /\ tasks = [i \in TaskIds |-> IdleTask]
    /\ so = "idle"
    /\ upd = [pc |-> "idle"]
    /\ open = FALSE
    /\ formData = [username |-> <<>>, display_name |-> <<>>, bio |-> <<>>]
    /\ avatarFile = NoFile
    /\ formLoading = FALSE
    /\ sub = SubIdle
    /\ rsub = [pc |-> "idle"]
    /\ last = [op |-> "fetchProfile", result |-> "none",
               toasts |-> <<"Profile Created">>, calls |-> <<>>]

NextEdit ==
    \/ \E u \in EditUsers : SignedIn(u)
    \/ SignedOut
    \/ \E i \in TaskIds : FetchSelectResolve(i, FALSE)
    \/ OpenForm
    \/ Cancel
    \/ \E name \in DraftNames : HandleInputChange("username", name)
    \/ \E file \in Files : HandleAvatarChange(file)
    \/ SubmitStart
    \/ \E fail \in BOOLEAN : SubmitUniqResolve(fail)
    \/ \E fail \in BOOLEAN : SubmitRemoveResolve(fail)
    \/ \E fail \in BOOLEAN : SubmitUploadResolve(fail)
    \/ \E fail \in BOOLEAN : SubmitUpdateResolve(fail)
    \/ RemoteCreate("u3")
    \/ \E name \in RemoteNames : RemoteSubmitCheck("u2", name)
    \/ RemoteSubmitCommit

SpecEdit == InitEdit /\ [][NextEdit]_vars

\* updateProfile called by the editor and by other components of u1's
\* browser
NextUpdate ==
    \/ \E u \in EditUsers : SignedIn(u)
    \/ SignedOut
    \/ \E i \in TaskIds : FetchSelectResolve(i, FALSE)
    \/ \E updates \in DirectUpdates : UpdateProfileCall(updates)
    \/ \E fail \in BOOLEAN : UpdateProfileResolve(fail)
    \/ OpenForm
    \/ Cancel
    \/ HandleInputChange("username", S_ann)
    \/ HandleInputChange("bio", <<"Z">>)
    \/ SubmitStart
    \/ SubmitUniqResolve(FALSE)
    \/ \E fail \in BOOLEAN : SubmitUpdateResolve(fail)

SpecUpdate == InitEdit /\ [][NextUpdate]_vars

\* The username validation of handleSubmit: u1 has opened the editor and
\* typed a username
MaxShort == 3       \* every username up to this length is tried
PadLen == 28        \* and every one of them with this many letters added

ValChars == {"a", "Z", "9", "_", " ", "!"}
ShortNames == UNION {[1..n -> ValChars] : n \in 0..MaxShort}
Pad == [i \in 1..PadLen |-> "a"]
ExampleNames ==
    {S_ab, <<"b", "a", "d", " ", "n", "a", "m", "e", "!">>,
     <<"v", "a", "l", "i", "d", "_", "9", "9">>, [i \in 1..31 |-> "a"]}
ValidationNames ==
    ShortNames \cup {Pad \o n : n \in ShortNames} \cup {n \o Pad : n \in ShortNames}
        \cup ExampleNames

InitValidate ==
    /\ db = [u \in Users |->
                IF u \in {"u3", "u4"} THEN NoRow ELSE NewProfileRow(u, u, 0)]
    /\ bucket = {}
    /\ now = 0
    /\ auth = NewSession("u1")
    /\ session = auth
    /\ user = "u1"
    /\ profile = db["u1"]
    /\ isLoading = FALSE
    /\ signedOut = FALSE
    /\ verified = {}
    /\ tasks = [i \in TaskIds |-> IdleTask]
    /\ so = "idle"
    /\ upd = [pc |-> "idle"]
    /\ open = TRUE
    /\ \E name \in ValidationNames :
            formData = [InitialDraft(profile) EXCEPT !.username = name]
    /\ avatarFile = NoFile
    /\ formLoading = FALSE
    /\ sub = SubIdle
    /\ rsub = [pc |-> "idle"]
    /\ last = [op |-> "other", result |-> "none", toasts |-> <<>>, calls |-> <<>>]

NextValidate ==
    \/ SubmitStart
    \/ \E fail \in BOOLEAN : SubmitUniqResolve(fail)
    \/ \E fail \in BOOLEAN : SubmitUpdateResolve(fail)

SpecValidate == InitValidate /\ [][NextValidate]_vars

\* The avatar validation of uploadAvatar: u1, whose profile has an avatar,
\* has opened the editor and attached a file
FileNames ==
    {<<"a", ".", "p", "n", "g">>, <<"a", ".", "P", "N", "G">>,
     <<"a", ".", "j", "p", "g">>, <<"a", ".", "j", "p", "e", "g">>,
     <<"a", ".", "g", "i", "f">>, <<"a", ".", "t", "x", "t">>,
     <<"a", ".", "p", "n", "g", ".", "t", "x", "t">>,
     <<"a", ".", "t", "x", "t", ".", "G", "i", "f">>,
     <<"a", ".">>, <<"p", "n", "g">>, <<"a", "p", "n", "g">>}
FileTypes ==
    {S_imagePng, S_textPlain, S_imagePrefix, <<"i", "m", "a", "g", "e">>,
     <<"x", "i", "m", "a", "g", "e", "/">>, <<>>}
FileSizes == {0, MiB, 2 * MiB - 1, 2 * MiB, 2 * MiB + 1, 3 * MiB}
AvatarFiles ==
    {[name |-> n, type |-> t, size |-> z] : n \in FileNames, t \in FileTypes,
                                            z \in FileSizes}
OldAvatar == FileName("u1", 0, <<"p", "n", "g">>)

InitAvatar ==
    /\ db = [u \in Users |->
                IF u \in {"u3", "u4"} THEN NoRow
                ELSE IF u = "u1"
                THEN [NewProfileRow(u, u, 0) EXCEPT !.avatar_url = PublicUrl(OldAvatar)]
                ELSE NewProfileRow(u, u, 0)]
    /\ bucket = {OldAvatar}
    /\ now = 0
    /\ auth = NewSession("u1")
    /\ session = auth
    /\ user = "u1"
    /\ profile = db["u1"]
    /\ isLoading = FALSE
    /\ signedOut = FALSE
    /\ verified = {}
    /\ tasks = [i \in TaskIds |-> IdleTask]
    /\ so = "idle"
    /\ upd = [pc |-> "idle"]
    /\ open = TRUE
    /\ formData = InitialDraft(profile)
    /\ avatarFile \in AvatarFiles
    /\ formLoading = FALSE
    /\ sub = SubIdle
    /\ rsub = [pc |-> "idle"]
    /\ last = [op |-> "other", result |-> "none", toasts |-> <<>>, calls |-> <<>>]

NextAvatar ==
    \/ SubmitStart
    \/ \E fail \in BOOLEAN : SubmitRemoveResolve(fail)
    \/ \E fail \in BOOLEAN : SubmitUploadResolve(fail)
    \/ \E fail \in BOOLEAN : SubmitUpdateResolve(fail)

SpecAvatar == InitAvatar /\ [][NextAvatar]_vars

\* The creation of profiles: u2 or u4 opens the application for the first
\* time, with a session, and then edits the profile
CreateUsers == {"u2", "u4"}

InitCreate ==
    /\ db = [u \in Users |-> NoRow]
    /\ bucket = {}
    /\ now = 0
    /\ auth \in {NewSession(u) : u \in CreateUsers}
    /\ session = NoSession
    /\ user = NoUser
    /\ profile = NoProfile
    /\ isLoading = TRUE
    /\ signedOut = FALSE
    /\ verified = {}
    /\ tasks = [i \in TaskIds |->
                    IF i = 0 THEN [IdleTask EXCEPT !.pc = "getSession", !.ev = "INIT"]
                    ELSE IdleTask]
    /\ so = "idle"
    /\ upd = [pc |-> "idle"]
    /\ open = FALSE
    /\ formData = [username |-> <<>>, display_name |-> <<>>, bio |-> <<>>]
    /\ avatarFile = NoFile
    /\ formLoading = FALSE
    /\ sub = SubIdle
    /\ rsub = [pc |-> "idle"]
    /\ last = [op |-> "mount", result |-> "none", toasts |-> <<>>, calls |-> <<"getSession">>]

NextCreate ==
    \/ GetSessionResolve(FALSE)
    \/ \E u \in CreateUsers : SignedIn(u)
    \/ \E i \in TaskIds : FetchSelectResolve(i, FALSE)
    \/ \E i \in TaskIds : FetchGetUserResolve(i, FALSE)
    \/ \E i \in TaskIds : FetchInsertResolve(i, FALSE)
    \/ OpenForm
    \/ Cancel
    \/ \E name \in DraftNames : HandleInputChange("username", name)
    \/ SubmitStart
    \/ SubmitUniqResolve(FALSE)
    \/ SubmitUpdateResolve(FALSE)

SpecCreate == InitCreate /\ [][NextCreate]_vars

-----------------------------------------------------------------------------
(* The claims about the session manager, checked under Spec *)

\* C1: the step that handles a SIGNED_OUT event leaves session, identity and
\* profile absent and the loading flag false, and issues no backend call: no
\* request is sent, no task starts or moves, the backend is untouched.
C1_SignedOutClears ==
    [][last'.op = "SIGNED_OUT" =>
            /\ session' = NoSession
            /\ user' = NoUser
            /\ profile' = NoProfile
            /\ isLoading' = FALSE
            /\ last'.calls = <<>>
            /\ tasks' = tasks
            /\ so' = so
            /\ db' = db
            /\ bucket' = bucket]_vars

\* SIGNED_OUT has just been handled while the fetch of a SIGNED_IN callback
\* still waits for its select
C1_Witness ==
    /\ last.op = "SIGNED_OUT"
    /\ \E i \in 1..MaxHandlers :
            tasks[i].pc = "select" /\ tasks[i].ev = "SIGNED_IN"

\* C2: from the handling of SIGNED_OUT until a session is stored again, the
\* in-memory profile is absent, whatever fetch completes meanwhile.
C2_StaleFetchIgnored == signedOut => profile = NoProfile

\* C3 as stated: when signOut has completed, with or without an error of the
\* provider, session, identity and profile are absent.
C3_SignOutAlwaysClears ==
    (last.op = "signOut" /\ last.result # "none") =>
        (session = NoSession /\ user = NoUser /\ profile = NoProfile)

\* C3 as amended: a signOut whose provider call succeeds leaves session,
\* identity and profile absent; one whose provider call reports an error
\* leaves them as they were.
C3_SignOutClearsOnSuccess ==
    [][/\ (last'.op = "signOut" /\ last'.result = "ok") =>
            (session' = NoSession /\ user' = NoUser /\ profile' = NoProfile)
       /\ (last'.op = "signOut" /\ last'.result = "error") =>
            (session' = session /\ user' = user /\ profile' = profile)]_vars

\* signOut has just ended with an error of the provider, the user signed in
C3_Witness ==
    /\ last.op = "signOut"
    /\ last.result = "error"
    /\ session # NoSession
    /\ user # NoUser
    /\ profile # NoProfile

\* C4: a loadProfile for an identity without a row goes on to create one
\* unless the backend reports an error; the insert that succeeds creates the
\* one row of that identity, with coins = 0 and a non-empty username, changes
\* no other row, and the row becomes the in-memory profile; a loadProfile
\* whose select finds the row returns it and inserts nothing.
C4_LoadProfileCreatesOnce ==
    [][\A i \in TaskIds :
        LET u == tasks[i].uid
            stepped == tasks'[i] # tasks[i] /\ last'.op = "fetchProfile"
        IN  /\ (stepped /\ tasks[i].pc = "select" /\ db[u] = NoRow
                    /\ last'.result # "error") =>
                    (tasks'[i].pc = "getUser" /\ db' = db)
            /\ (stepped /\ tasks[i].pc = "getUser" /\ last'.result # "error") =>
                    (tasks'[i].pc = "insert" /\ db' = db)
            /\ (stepped /\ tasks[i].pc = "insert" /\ last'.result # "error") =>
                    /\ last'.result = "created"
                    /\ db[u] = NoRow
                    /\ db'[u] # NoRow
                    /\ db'[u].id = u
                    /\ db'[u].coins = 0
                    /\ db'[u].username # <<>>
                    /\ \A v \in Users \ {u} : db'[v] = db[v]
                    /\ profile' = db'[u]
            /\ (stepped /\ tasks[i].pc = "select" /\ db[u] # NoRow
                    /\ last'.result # "error") =>
                    /\ last'.result = "loaded"
                    /\ db' = db
                    /\ profile' = db[u]
                    /\ tasks'[i].pc \notin {"getUser", "insert"}
                    /\ last'.calls \in {<<>>, <<"select">>}]_vars

\* a later loadProfile has returned the row created with the fallback username
C4_Witness ==
    /\ last.op = "fetchProfile"
    /\ last.result = "loaded"
    /\ profile # NoProfile
    /\ Email(profile.id) = Null
    /\ profile = db[profile.id]

-----------------------------------------------------------------------------
(* The claims about the profile editor, checked under SpecEdit, SpecUpdate
   and SpecValidate *)

\* C5: when the uniqueness query of a submission is answered while a row of
\* another identity holds the submitted username, the submission ends with
\* 'Username is already taken' in that step, without a row update, a storage
\* call or another backend call.
C5_TakenUsernameRejected ==
    [][(/\ sub.pc = "uniq"
        /\ last'.op = "handleSubmit"
        /\ last'.result # "OTHER"
        /\ \E j \in Users \ {sub.user} :
                db[j] # NoRow /\ db[j].username = sub.form.username) =>
            /\ last'.result = "Username is already taken"
            /\ sub'.pc = "idle"
            /\ last'.calls = <<>>
            /\ db' = db
            /\ bucket' = bucket
            /\ open' = open]_vars

\* C6: the uniqueness check is not repeated when a submission commits: an
\* update that succeeds writes the submitted username into the submitter's
\* row whatever the other rows hold by then.
C6_CommitNotGuarded ==
    [][(/\ sub.pc = "update"
        /\ last'.op = "handleSubmit"
        /\ last'.result = "ok"
        /\ db[sub.user] # NoRow) =>
            db'[sub.user].username = sub.form.username]_vars

\* u1's submission has just committed the username that u2's overlapping
\* submission committed: only submissions write this name, and either
\* check would have found the other's row had it run after the other's commit
C6_Witness ==
    /\ last.op = "handleSubmit"
    /\ last.result = "ok"
    /\ db["u1"] # NoRow
    /\ db["u2"] # NoRow
    /\ db["u1"].username = S_ann
    /\ db["u2"].username = S_ann

\* C7: the submission of a username s by a signed-in user passes the
\* validation exactly when s has a character that is not white space, a
\* length from 3 to 30 and only characters of [A-Za-z0-9_]; otherwise it ends
\* in that step with the error of the first check that fails, in the order
\* required, too short, too long, bad charset, and no backend call is made.
C7_NonBlank(s) == \E i \in 1..Len(s) : s[i] \notin WhiteSpace
C7_Charset(s) == \A i \in 1..Len(s) : s[i] \in Lower \cup Upper \cup Digit \cup {"_"}
C7_FirstError(s) ==
    CASE ~C7_NonBlank(s) -> "Username is required"
      [] C7_NonBlank(s) /\ Len(s) < 3 -> "Username must be at least 3 characters long"
      [] C7_NonBlank(s) /\ Len(s) > 30 -> "Username must be less than 30 characters"
      [] OTHER -> "Username can only contain letters, numbers, and underscores"
C8_SameUsernameNoQuery ==
    [][/\ (/\ sub.pc = "idle"
           /\ last'.op = "handleSubmit"
           /\ profile # NoProfile
           /\ formData.username = profile.username) =>
                (sub'.pc # "uniq" /\ last'.calls # <<"uniq">>)
       /\ sub'.pc = "uniq" => sub'.form.username # UsernameOf(sub'.profile)
       /\ (/\ sub.pc = "update"
           /\ last'.op = "handleSubmit"
           /\ sub.form.username = UsernameOf(sub.profile)
           /\ last'.toasts # <<>>
           /\ Head(last'.toasts) = "Profile Updated") =>
                /\ last'.result = "ok"
                /\ sub'.pc = "idle"
                /\ open' = FALSE
                /\ formLoading' = FALSE]_vars

\* a submission with the profile's own username waits for its update
C8_Witness ==
    /\ sub.pc = "update"
    /\ sub.profile # NoProfile
    /\ sub.form.username = sub.profile.username

\* C9: an updateProfile(updates) that succeeds sets in the in-memory profile
\* the fields of updates and leaves every other field as it was, and it
\* starts no fetch.
C9_Frame(updates) ==
    /\ profile = NoProfile => profile' = NoProfile
    /\ profile # NoProfile =>
            /\ DOMAIN profile' = DOMAIN profile
            /\ \A f \in DOMAIN profile :
                    profile'[f] = IF f \in DOMAIN updates THEN updates[f] ELSE profile[f]
    /\ tasks' = tasks
    /\ last'.calls = <<>>
C9_UpdateMergesOnlyGiven ==
    [][/\ (upd.pc = "wait" /\ last'.op = "updateProfile" /\ last'.result = "ok") =>
                C9_Frame(upd.updates)
       /\ (sub.pc = "update" /\ last'.op = "handleSubmit" /\ last'.result = "ok") =>
                C9_Frame(SubmitUpdates(sub.form, sub.avatar_url))]_vars

\* updateProfile({display_name: "X"}) has succeeded on the profile that
\* fetchProfile created
C9_Witness ==
    /\ last.op = "updateProfile"
    /\ last.result = "ok"
    /\ profile # NoProfile
    /\ profile.display_name = <<"X">>
    /\ profile.username = DefaultUsername("u1", 0)
    /\ profile.coins = 0

\* C10: updateProfile called without an identity ends with an error, sends
\* nothing to the backend and leaves the in-memory profile as it was; an
\* updateProfile whose update reports an error ends with an error and leaves
\* the in-memory profile as it was.
C10_UpdateFailureKeepsProfile ==
    [][/\ (/\ upd.pc = "idle"
           /\ user = NoUser
           /\ last'.op = "updateProfile") =>
                /\ last'.result = "User not authenticated"
                /\ last'.calls = <<>>
                /\ upd' = upd
                /\ db' = db
                /\ profile' = profile
       /\ (/\ upd.pc = "wait"
           /\ last'.op = "updateProfile"
           /\ last'.toasts = <<"Update Failed">>) =>
                (last'.result = "error" /\ profile' = profile)
       /\ (/\ sub.pc = "update"
           /\ last'.op = "handleSubmit"
           /\ last'.toasts # <<>>
           /\ Head(last'.toasts) = "Update Failed") =>
                (last'.result = "error" /\ profile' = profile)]_vars

\* updateProfile({display_name: "X"}) has just failed at the backend
C10_Witness ==
    /\ last.op = "updateProfile"
    /\ last.result = "error"
    /\ profile # NoProfile
    /\ profile.display_name # <<"X">>

-----------------------------------------------------------------------------
(* More claims about the session manager, checked under Spec *)

\* C11: the handling of a TOKEN_REFRESHED event changes only the stored
\* session: it issues no backend call, starts no profile fetch and leaves the
\* in-memory profile, the identity's id and the loading flag as they were.
C11_TokenRefreshOnlySession ==
    [][(last'.op = "TOKEN_REFRESHED" /\ auth' # auth) =>
            /\ profile' = profile
            /\ isLoading' = isLoading
            /\ user' = user
            /\ tasks' = tasks
            /\ last'.calls = <<>>]_vars

\* C12: every "Account Verified" notification is the first one shown for its
\* identity.
C12_VerifiedOneShot ==
    [][(/\ last'.op = "fetchProfile"
        /\ tasks' # tasks
        /\ \E k \in 1..Len(last'.toasts) : last'.toasts[k] = "Account Verified") =>
            verified' # verified]_vars

-----------------------------------------------------------------------------
(* More claims about the profile editor, checked under SpecEdit and
   SpecAvatar *)

\* C13: a submission with a file attached calls updateProfile only in the
\* step in which the upload of that file, which passed the validation,
\* succeeds; a submission changes the stored rows and the in-memory profile
\* only when its updateProfile answers; and when the upload fails the
\* submission ends in that step with an error and without a backend call.
C13_UploadFailureAborts ==
    [][/\ (sub.pc # "update" /\ sub'.pc = "update" /\ sub'.file # NoFile) =>
                /\ sub.pc = "upload"
                /\ ValidateFile(sub.file) = "none"
                /\ sub.fileName \notin bucket
                /\ bucket' = bucket \cup {sub.fileName}
       /\ (last'.op = "handleSubmit" /\ sub.pc # "update") =>
                (db' = db /\ profile' = profile)
       /\ (/\ sub.pc = "upload"
           /\ last'.op = "handleSubmit"
           /\ sub' # sub
           /\ bucket' = bucket) =>
                /\ sub'.pc = "idle"
                /\ last'.result = "Failed to upload avatar"
                /\ last'.calls = <<>>
                /\ open' = open]_vars

\* the upload of a valid file has just failed and ended the submission
C13_Witness ==
    /\ last.op = "handleSubmit"
    /\ last.result = "Failed to upload avatar"
    /\ sub.pc = "idle"
    /\ avatarFile # NoFile
    /\ ValidateFile(avatarFile) = "none"

\* C14: a submission that reaches its attached file goes on to a storage
\* call exactly when the file's type starts with 'image/', its size is at
\* most 2097152 and the lower-cased text after the last '.' of its name (the
\* whole name when it has no '.') is jpg, jpeg, png or gif; otherwise it ends
\* in that step with no storage call and the bucket as it was.
C14_Ext(name) ==
    LET dots == {i \in 1..Len(name) : name[i] = "."}
        k == IF dots = {} THEN 0 ELSE CHOOSE i \in dots : \A j \in dots : j <= i
    IN  [i \in 1..(Len(name) - k) |-> LowerChar(name[k + i])]
C14_Accepts(f) ==
    /\ Len(f.type) >= 6
    /\ \A i \in 1..6 : f.type[i] = S_imagePrefix[i]
    /\ f.size <= 2097152
    /\ C14_Ext(f.name) \in ImageExts
C15_SubmitOutcome ==
    [][(last'.op = "handleSubmit" /\ (last' # last \/ sub' # sub)) =>
            LET called == \E k \in 1..Len(last'.toasts) :
                                last'.toasts[k] = "onProfileUpdate"
                closed == \E k \in 1..Len(last'.toasts) :
                                last'.toasts[k] = "onOpenChange(false)"
                succeeded == /\ sub.pc = "update"
                             /\ last'.toasts # <<>>
                             /\ Head(last'.toasts) = "Profile Updated"
            IN  /\ called <=> succeeded
                /\ closed <=> succeeded
                /\ open' = (open /\ ~succeeded)
                /\ formData' = formData
                /\ avatarFile' = avatarFile
                /\ sub'.pc = "idle" => formLoading' = FALSE
                /\ sub'.pc # "idle" => formLoading' = TRUE
                /\ (sub'.pc = "idle" /\ ~succeeded) =>
                        /\ last'.result \notin {"none", "ok"}
                        /\ last'.toasts[Len(last'.toasts)] = "Error"]_vars

\* a submission has just failed at the uniqueness check and the surface is
\* open with the draft that was submitted
C15_Witness ==
    /\ last.op = "handleSubmit"
    /\ last.result = "Username is already taken"
    /\ open
    /\ ~formLoading
    /\ sub.pc = "idle"

\* C16: the avatars bucket holds at most one asset of each identity.
C16_OneAssetPerProfile ==
    \A u \in Users : Cardinality({f \in bucket : f[1] = u}) <= 1

-----------------------------------------------------------------------------
(* Claims about the rows and the restoring of the session, checked under
   SpecCreate and Spec *)

\* C17: every row of the profiles table has a username of 3 to 30
\* characters, each of them a letter, a digit or '_'.
C17_RowUsernamesValid ==
    \A u \in Users :
        db[u] # NoRow =>
            /\ Len(db[u].username) >= 3
            /\ Len(db[u].username) <= 30
            /\ \A k \in 1..Len(db[u].username) :
                    db[u].username[k] \in Lower \cup Upper \cup Digit \cup {"_"}

\* C18: when getSession answers with an error, getInitialSession shows the
\* 'Auth Error' notification and leaves session, identity and profile absent
\* and the loading flag false; when it answers without a session, session,
\* identity and profile are absent, the loading flag is false and no backend
\* call is issued.
C18_RestoreWithoutSession ==
    [][(/\ tasks[0].pc = "getSession"
        /\ tasks'[0].pc # "getSession"
        /\ \/ last'.toasts = <<"Auth Error">>
           \/ auth = NoSession) =>
            /\ last'.op = "getInitialSession"
            /\ session' = NoSession
            /\ user' = NoUser
            /\ profile' = NoProfile
            /\ isLoading' = FALSE
            /\ last'.calls = <<>>
            /\ tasks'[0].pc = "idle"
            /\ \A i \in TaskIds \ {0} : tasks'[i] = tasks[i]
            /\ db' = db
            /\ auth # NoSession => last'.toasts = <<"Auth Error">>]_vars

\* getSession has just answered that there is no session
C18_Witness ==
    /\ last.op = "getInitialSession"
    /\ last.toasts = <<>>
    /\ last.calls = <<>>
    /\ auth = NoSession
    /\ user = NoUser
    /\ profile = NoProfile
    /\ ~isLoading

\* C19: when the in-memory profile and the identity are both present, the
\* profile is the identity's.
C19_ProfileOfIdentity ==
    (profile # NoProfile /\ user # NoUser) => profile.id = user

\* C20: when the insert of a loadProfile is answered after an overlapping
\* loadProfile has created the identity's row, and no loadProfile is running
\* any more, the identity has its row and the in-memory profile is that row.
C20_OverlapKeepsProfile ==
    [][\A i \in TaskIds :
        (/\ tasks[i].pc = "insert"
         /\ db[tasks[i].uid] # NoRow
         /\ last'.op = "fetchProfile"
         /\ tasks' # tasks
         /\ \A j \in TaskIds : tasks'[j].pc = "idle"
         /\ user = tasks[i].uid) =>
            /\ db'[tasks[i].uid] # NoRow
            /\ profile' = db'[tasks[i].uid]]_vars

\* C21: while no submission is running, the asset that the avatar_url of a
\* stored row names is in the avatars bucket.
C21_ReferencedAssetExists ==
    \A u \in Users :
        (sub.pc = "idle" /\ db[u] # NoRow /\ db[u].avatar_url # <<>>) =>
            db[u].avatar_url[Len(db[u].avatar_url)] \in bucket

====
